---------------------------- MODULE Spec2Model ----------------------------
(***************************************************************************)
(* State-machine model of OptimizedSlackHuddleDetector                     *)
(* (src/slack-huddle-detector-optimized.py): calibration, then the         *)
(* monitoring loop of run(), one action per loop iteration.                *)
(*                                                                         *)
(* Numbers.  Scores and the peak are Python ints.  baseline_score is the   *)
(* float sum(scores)/3 after calibrate() and an int after re-anchoring; it *)
(* is held here in THIRDS (3 * baseline), so that every value the program  *)
(* can hold is an integer.  The comparisons of an int score with           *)
(* baseline + 25, baseline + 10 and peak * 0.7 were compared with exact    *)
(* arithmetic for every score and peak in 0..150 and every baseline n/3,   *)
(* n in 0..450, under IEEE-754 doubles: they agree everywhere, so they are *)
(* written below as integer comparisons.  The trend is different:          *)
(* sum/3 - sum/3 is not always the exact difference (35/3 - 65/3 is        *)
(* -10.000000000000002), so the trend carries the sign of its rounding     *)
(* error (see Trend).                                                      *)
(***************************************************************************)
EXTENDS Integers, Sequences, FiniteSets

VARIABLES
    pc,                 \* "calibrate": run() before calibrate() returned; "monitor": in the
                        \* while loop; "dumping": in write_status_file, the file is open
    scores,             \* calibrate(): scores
    baseline_score,     \* self.baseline_score, in thirds
    in_huddle,          \* self.in_huddle
    score_history,      \* self.score_history, deque(maxlen=10)
    huddle_peak_score,  \* self.huddle_peak_score
    consecutive_starts, \* run(): consecutive_starts
    consecutive_ends,   \* run(): consecutive_ends
    state,              \* run(): state, the last indicator snapshot
    score,              \* run(): score
    reasons,            \* run(): reasons
    should_start,       \* run(): should_start of the last iteration
    should_end,         \* run(): should_end of the last iteration
    trend,              \* run(): trend of the last iteration
    status_file,        \* content of /tmp/huddle-status-<user>.json
    reader_view,        \* what the menubar app got from its last read of the file
    probe_outputs,      \* observer: what the probe commands returned to the last get_audio_state
    samples_gathered,   \* observer: calibration snapshots in which some probe returned a count
    write_outcome,      \* observer: how the last write_status_file went
    pushed,             \* observer: every score given to detect_huddle_change, in order
    session_start,      \* observer: index in pushed of the tick that confirmed the current ACTIVE period
    phases,             \* observer: self.in_huddle at the end of every iteration, in order
    interrupts,         \* observer: the KeyboardInterrupts delivered to the process so far
    manual_huddle_state, \* slack-huddle-sudo.py: self.manual_huddle_state
    stdin_thread,       \* slack-huddle-sudo.py: "listening" while stdin_listener runs, else "returned"
    labelled,           \* slack-huddle-sudo.py: for every pass of run(), TRUE if its data went
                        \* to huddle_data and FALSE if to baseline_data
    last_command        \* observer: the last 'h' or 'n' line typed, "" when there was none

vars == <<pc, scores, baseline_score, in_huddle, score_history, huddle_peak_score,
          consecutive_starts, consecutive_ends, state, score, reasons,
          should_start, should_end, trend, status_file, reader_view,
          probe_outputs, samples_gathered, write_outcome, pushed, session_start,
          phases, interrupts, manual_huddle_state, stdin_thread, labelled,
          last_command>>

\* the state of the monitor of slack-huddle-sudo.py, a program of its own
sudo_monitor == <<manual_huddle_state, stdin_thread, labelled, last_command>>

----------------------------------------------------------------------------
(* Bounds of the model *)

\* monitoring ticks explored by Spec
MaxTicks == 6

\* monitoring ticks explored by SpecLong (more than the history capacity)
MaxLongTicks == 11

\* monitoring ticks SpecScore takes before the tick that ranges over ScoreInputs
MaxScoreTicks == 2

\* passes of the loop of slack-huddle-sudo.py explored by SpecSudo
MaxSudoPasses == 5

\* monitoring ticks and interrupts explored by SpecInterrupt
MaxInterruptTicks == 3
MaxInterrupts == 1

\* SpecSustained: ticks on any score, then ticks on high scores up to a total
MaxPrefixTicks == 5
MaxSustainedTicks == 12

\* monitoring ticks explored by SpecFaults
MaxFaultTicks == 3

----------------------------------------------------------------------------
(* Program constants *)

HistoryMaxLen == 10
ConfirmTicks == 2
TrendWindow == 3
MinStartThreshold == 50
StartMargin == 25
EndMargin == 10
TrendEndScore == 50

----------------------------------------------------------------------------
(* Indicator source: get_audio_state *)

IndicatorNames == {"audio_fds", "audio_units", "hal_plugins", "power_assertions",
                   "slack_assertions", "ioregistry_clients", "coreaudio_connections"}

\* The output of one probe command: a natural number stands for that digit
\* string, NoOutput for anything str.isdigit() rejects (the "" that
\* run_command_safe returns on a failure or timeout, or non-numeric text).
NoOutput == -1

\* the output handed on without the isdigit() test
ParseCountUnchecked(output) == output

ParseCount(output) == IF output >= 0 THEN output ELSE 0

GetAudioState(probes) == [k \in IndicatorNames |-> ParseCount(probes[k])]

Probes(pa, sa, au, hal, fds, io, ca) ==
    [k \in IndicatorNames |->
        CASE k = "power_assertions" -> pa
          [] k = "slack_assertions" -> sa
          [] k = "audio_units" -> au
          [] k = "hal_plugins" -> hal
          [] k = "audio_fds" -> fds
          [] k = "ioregistry_clients" -> io
          [] k = "coreaudio_connections" -> ca]

----------------------------------------------------------------------------
(* Composite scorer: calculate_score *)

Min(a, b) == IF a < b THEN a ELSE b
Max(a, b) == IF a > b THEN a ELSE b

\* the rules without the caps of the two scaled contributions
RulesUncapped(st) ==
    << <<"Audio power", "power_assertions",
         st["power_assertions"] > 0, 25>>,
       <<"Slack assertions", "slack_assertions",
         st["slack_assertions"] > 0, 20 * st["slack_assertions"]>>,
       <<"Audio units", "audio_units",
         st["audio_units"] > 0, 15 * st["audio_units"]>>,
       <<"HAL plugins", "hal_plugins",
         st["hal_plugins"] > 0, 10>>,
       <<"Audio FDs", "audio_fds",
         st["audio_fds"] > 3, 5>>,
       <<"IO clients", "ioregistry_clients",
         st["ioregistry_clients"] > 0, 10>>,
       <<"CoreAudio", "coreaudio_connections",
         st["coreaudio_connections"] > 0, 10>> >>

\* The weighting rules in evaluation order: <<reason label, indicator,
\* triggered, contribution>>.
Rules(st) ==
    << <<"Audio power", "power_assertions",
         st["power_assertions"] > 0, 25>>,
       <<"Slack assertions", "slack_assertions",
         st["slack_assertions"] > 0, 20 * Min(st["slack_assertions"], 3)>>,
       <<"Audio units", "audio_units",
         st["audio_units"] > 0, 15 * Min(st["audio_units"], 2)>>,
       <<"HAL plugins", "hal_plugins",
         st["hal_plugins"] > 0, 10>>,
       <<"Audio FDs", "audio_fds",
         st["audio_fds"] > 3, 5>>,
       <<"IO clients", "ioregistry_clients",
         st["ioregistry_clients"] > 0, 10>>,
       <<"CoreAudio", "coreaudio_connections",
         st["coreaudio_connections"] > 0, 10>> >>

RECURSIVE ScoreFrom(_, _)
ScoreFrom(rules, i) ==
    IF i > Len(rules) THEN 0
    ELSE (IF rules[i][3] THEN rules[i][4] ELSE 0) + ScoreFrom(rules, i + 1)

\* reasons collected in front of the list instead of appended
RECURSIVE ReasonsFromPrepended(_, _, _)
ReasonsFromPrepended(rules, st, i) ==
    IF i > Len(rules) THEN <<>>
    ELSE ReasonsFromPrepended(rules, st, i + 1)
         \o (IF rules[i][3] THEN << <<rules[i][1], st[rules[i][2]]>> >> ELSE <<>>)

RECURSIVE ReasonsFrom(_, _, _)
ReasonsFrom(rules, st, i) ==
    IF i > Len(rules) THEN <<>>
    ELSE (IF rules[i][3] THEN << <<rules[i][1], st[rules[i][2]]>> >> ELSE <<>>)
         \o ReasonsFrom(rules, st, i + 1)

\* a scorer that reads the phase of the detector
CalculateScoreByPhase(st) ==
    [score |-> ScoreFrom(Rules(st), 1) + (IF in_huddle THEN 5 ELSE 0),
     reasons |-> ReasonsFrom(Rules(st), st, 1)]

CalculateScore(st) ==
    [score |-> ScoreFrom(Rules(st), 1), reasons |-> ReasonsFrom(Rules(st), st, 1)]

ScoreOf(probes) == CalculateScore(GetAudioState(probes)).score

----------------------------------------------------------------------------
(* History tracker: the deque and the trend of detect_huddle_change *)

\* an append that stores the item twice
DequeAppendTwice(h, x) ==
    IF Len(h) >= HistoryMaxLen THEN Tail(h) \o <<x>> ELSE Append(Append(h, x), x)

\* mutant: a deque without maxlen
DequeAppendUnbounded(h, x) == Append(h, x)

\* deque(maxlen=10).append: a full deque drops its leftmost item.
DequeAppend(h, x) ==
    IF Len(h) >= HistoryMaxLen THEN Tail(h) \o <<x>> ELSE Append(h, x)

\* h[lo] + ... + h[hi]
RECURSIVE SumRange(_, _, _)
SumRange(h, lo, hi) == IF lo > hi THEN 0 ELSE h[lo] + SumRange(h, lo + 1, hi)

(***************************************************************************)
(* Float arithmetic of "recent_avg - older_avg", where recent_avg = a / 3  *)
(* and older_avg = b / 3 for int sums a and b.  The exact values lie on a  *)
(* grid of 1/3 and a rounding error is below 1e-13, so only the SIGN of    *)
(* the error can decide a comparison of the trend with an integer.  The    *)
(* binary expansion of 1/3 has period 2, so rounding to a 53-bit           *)
(* significand and to a 9-bit one (53 - 44) go the same way; the operators *)
(* below divide and subtract with 9-bit significands, in units of 1/1024,  *)
(* round-half-even as IEEE-754 does.  The resulting error sign equals that *)
(* of CPython's doubles for all sums a, b in 0..450.                       *)
(***************************************************************************)
SignificandBits == 9
Unit == 1024

RECURSIVE Pow2(_)
Pow2(k) == IF k <= 0 THEN 1 ELSE 2 * Pow2(k - 1)

Abs(x) == IF x < 0 THEN -x ELSE x
Sign(x) == IF x > 0 THEN 1 ELSE IF x < 0 THEN -1 ELSE 0

\* number of bits of n >= 1
RECURSIVE BitLength(_)
BitLength(n) == IF n <= 1 THEN 1 ELSE 1 + BitLength(n \div 2)

\* round-half-even of num / den, for num >= 0 and den > 0
RoundHalfEven(num, den) ==
    LET q == num \div den
        r == num % den
    IN  IF 2 * r > den \/ (2 * r = den /\ q % 2 = 1) THEN q + 1 ELSE q

\* num / den (in units) rounded to a float, in units
RoundToFloat(num, den) ==
    IF num = 0 THEN 0
    ELSE LET mag == Abs(num)
             grid == Pow2(BitLength(mag \div den) - SignificandBits)
         IN  Sign(num) * RoundHalfEven(mag, den * grid) * grid

\* a / 3 for an int a >= 0, in units
FloatDiv3(a) == RoundToFloat(a * Unit, 3)

\* x - y for floats x, y in units
FloatSub(x, y) == RoundToFloat(x - y, 1)

\* a / 3 - b / 3 as the program gets it: thirds is 3 * the exact difference,
\* err the sign of (float result - exact difference).
AvgDifference(a, b) ==
    [thirds |-> a - b,
     err |-> Sign(3 * FloatSub(FloatDiv3(a), FloatDiv3(b)) - Unit * (a - b))]

\* trend < c, trend > c and trend >= c for an int c
TrendLess(t, c) == t.thirds < 3 * c \/ (t.thirds = 3 * c /\ t.err < 0)
TrendGreater(t, c) == t.thirds > 3 * c \/ (t.thirds = 3 * c /\ t.err > 0)
TrendAtLeast(t, c) == ~TrendLess(t, c)

ZeroTrend == [thirds |-> 0, err |-> 0]

\* the older window taken as the slice [-6:-3] whatever the length
TrendOlderUnguarded(h) ==
    LET n == Len(h)
        recent == SumRange(h, n - TrendWindow + 1, n)
        older == SumRange(h, Max(1, n - 2 * TrendWindow + 1), n - TrendWindow)
    IN  IF n >= TrendWindow THEN AvgDifference(recent, older) ELSE ZeroTrend

\* lines 117-123, on the history that already holds the current score
Trend(h) ==
    LET n == Len(h)
        recent == SumRange(h, n - TrendWindow + 1, n)
        older == IF n >= 2 * TrendWindow
                 THEN SumRange(h, n - 2 * TrendWindow + 1, n - TrendWindow)
                 ELSE recent
    IN  IF n >= TrendWindow THEN AvgDifference(recent, older) ELSE ZeroTrend

----------------------------------------------------------------------------
(* Thresholds of detect_huddle_change; b3 is the baseline in thirds *)

\* a start threshold without its floor of 50
StartThresholdNoFloor(b3) == b3 + 3 * StartMargin

\* start_threshold = max(50, baseline + 25), in thirds
StartThreshold3(b3) == Max(3 * MinStartThreshold, b3 + 3 * StartMargin)

\* mutant: "<=" for "<" in the ratio rule
EndByRatioInclusive(sc, peak) == 10 * sc <= 7 * peak

\* current_score < huddle_peak_score * 0.7
EndByRatio(sc, peak) == 10 * sc < 7 * peak

\* current_score <= baseline_score + 10
EndByBaseline(sc, b3) == 3 * sc <= b3 + 3 * EndMargin

\* mutant: the trend rule without its "current_score < 50"
EndByTrendAnyScore(sc, tr) == TrendLess(tr, -10)

\* trend < -10 and current_score < 50
EndByTrend(sc, tr) == TrendLess(tr, -10) /\ sc < TrendEndScore

\* end conditions evaluated in either phase
ShouldEndInAnyPhase(inh, sc, peak, b3, tr) ==
    EndByRatio(sc, peak) \/ EndByBaseline(sc, b3) \/ EndByTrend(sc, tr)

ShouldEnd(inh, sc, peak, b3, tr) ==
    IF inh
    THEN EndByRatio(sc, peak) \/ EndByBaseline(sc, b3) \/ EndByTrend(sc, tr)
    ELSE FALSE

\* a start condition that wants a rising trend
ShouldStartRisingOnly(inh, sc, b3, tr) ==
    ~inh /\ 3 * sc >= StartThreshold3(b3) /\ TrendGreater(tr, 0)

ShouldStart(inh, sc, b3, tr) ==
    ~inh /\ 3 * sc >= StartThreshold3(b3) /\ TrendAtLeast(tr, 0)

----------------------------------------------------------------------------
(* State transitions of run(), lines 220-250 *)

\* mutant: a start is confirmed by a single start signal
StartConfirmedOnFirst(ss, cs) == ss /\ cs + 1 >= 1

\* "if should_start: consecutive_starts += 1; if consecutive_starts >= 2:"
StartConfirmed(ss, cs) == ss /\ cs + 1 >= ConfirmTicks

\* mutant: an end is confirmed by a single end signal
EndConfirmedOnFirst(ss, se, ce) == ~ss /\ se /\ ce + 1 >= 1

\* "elif should_end: consecutive_ends += 1; if consecutive_ends >= 2:"
EndConfirmed(ss, se, ce) == ~ss /\ se /\ ce + 1 >= ConfirmTicks

\* a start counter that is not cleared by the confirmation
NextStartsKeptAtConfirm(ss, se, cs) == IF ss THEN cs + 1 ELSE 0

\* a start counter that does not count a signal twice
NextStartsCapped(ss, se, cs) == IF ss THEN 1 ELSE 0

\* consecutive_starts at the end of the iteration
NextStarts(ss, se, cs) ==
    IF ss THEN (IF cs + 1 >= ConfirmTicks THEN 0 ELSE cs + 1) ELSE 0

\* an end counter that a start signal sets instead of clearing
NextEndsPrimedByStart(ss, se, ce) ==
    IF ss THEN 1
    ELSE IF se THEN (IF ce + 1 >= ConfirmTicks THEN 0 ELSE ce + 1)
    ELSE 0

\* mutant: the else branch forgets to clear consecutive_ends
NextEndsNoReset(ss, se, ce) ==
    IF ss THEN 0
    ELSE IF se THEN (IF ce + 1 >= ConfirmTicks THEN 0 ELSE ce + 1)
    ELSE ce

\* consecutive_ends at the end of the iteration
NextEnds(ss, se, ce) ==
    IF ss THEN 0
    ELSE IF se THEN (IF ce + 1 >= ConfirmTicks THEN 0 ELSE ce + 1)
    ELSE 0

\* self.in_huddle after the if/elif/else
PhaseAfter(started, ended, inh) ==
    IF started THEN TRUE ELSE IF ended THEN FALSE ELSE inh

\* mutant: the peak is not cleared when the session ends
PeakKeptAtEnd(started, ended, sc, peak) == IF started THEN sc ELSE peak

\* self.huddle_peak_score after the if/elif/else
PeakAfterTransition(started, ended, sc, peak) ==
    IF started THEN sc ELSE IF ended THEN 0 ELSE peak

\* mutant: the peak is never raised after the confirming tick
PeakNeverUpdated(inh, sc, peak) == peak

\* "if self.in_huddle and score > self.huddle_peak_score"
PeakUpdate(inh, sc, peak) == IF inh /\ sc > peak THEN sc ELSE peak

\* mutant: the new baseline is the mean of the old baseline and the score
BaselineAfterAveraged(ended, sc, b3) == IF ended THEN (b3 + 3 * sc) \div 2 ELSE b3

\* mutant: the baseline also follows any score below it
BaselineTracksLow(ended, sc, b3) == IF ended \/ 3 * sc < b3 THEN 3 * sc ELSE b3

\* self.baseline_score (thirds) after the if/elif/else
BaselineAfter(ended, sc, b3) == IF ended THEN 3 * sc ELSE b3

----------------------------------------------------------------------------
(* Baseline calibrator: calibrate *)

\* range(3)
CalibrationSamples == 3

\* the baseline taken from the last sample alone
BaselineOfLastSample(ss) == 3 * ss[Len(ss)]

\* sum(scores) / len(scores), in thirds
BaselineOf(ss) == (3 * SumRange(ss, 1, Len(ss))) \div Len(ss)

----------------------------------------------------------------------------
(* Status publisher: write_status_file *)

TrendStr(tr) ==
    IF TrendGreater(tr, 5) THEN "up" ELSE IF TrendLess(tr, -5) THEN "down" ELSE "flat"

\* a snapshot that keeps the baseline the tick began with
StatusDataStaleBaseline(inh, sc, b3, peak, tr, st) ==
    [inHuddle |-> inh,
     score |-> sc,
     baseline |-> baseline_score,
     peakScore |-> IF inh THEN peak ELSE 0,
     trend |-> TrendStr(tr),
     metrics |-> [slackAssertions |-> st["slack_assertions"],
                  audioUnits |-> st["audio_units"],
                  audioFds |-> st["audio_fds"],
                  powerAssertions |-> st["power_assertions"]]]

\* status_data; the timestamp, which no state of the detector decides, is left out
StatusData(inh, sc, b3, peak, tr, st) ==
    [inHuddle |-> inh,
     score |-> sc,
     baseline |-> b3,
     peakScore |-> IF inh THEN peak ELSE 0,
     trend |-> TrendStr(tr),
     metrics |-> [slackAssertions |-> st["slack_assertions"],
                  audioUnits |-> st["audio_units"],
                  audioFds |-> st["audio_fds"],
                  powerAssertions |-> st["power_assertions"]]]

(***************************************************************************)
(* The file is <<>> while it does not exist, <<d>> when it holds the       *)
(* complete snapshot d, and <<d, 0>> when open(path, 'w') has truncated it *)
(* for the dump of d and nothing of d is in it yet.  outcome "ok": open,   *)
(* dump, close and chmod all happen within the step (nobody looks in       *)
(* between); "open_error": open() raises, the except clause swallows it    *)
(* and the file is as it was; "opened": open() has returned and the dump   *)
(* is still to come (DumpDone, DumpError).                                 *)
(***************************************************************************)
WriteStatusFile(file, data, outcome) ==
    IF outcome = "ok" THEN <<data>>
    ELSE IF outcome = "opened" THEN <<data, 0>>
    ELSE file

\* a write error that ends run()
PcAfterWriteErrorStops == "stopped"

\* "except Exception as e: pass": control returns to the loop of run()
PcAfterWriteError == "monitor"

\* where run() is once write_status_file has done what outcome says
PcAfterWrite(outcome) ==
    IF outcome = "opened" THEN "dumping"
    ELSE IF outcome = "ok" THEN "monitor"
    ELSE PcAfterWriteError

----------------------------------------------------------------------------
(* Inputs *)

AllProbesFail == [k \in IndicatorNames |-> NoOutput]
Score10 == Probes(0, 0, 0, 1, 0, 0, 0)
Score45 == Probes(1, 1, 0, 0, 0, 0, 0)
Score60 == Probes(0, 3, 0, 0, 2, 0, 0)
Score65 == Probes(1, 2, 0, 0, 3, 0, 0)
Score70 == Probes(1, 1, 1, 1, 0, 0, 0)
Score100 == Probes(0, 4, 2, 1, 0, 0, 0)
\* three probes time out, the others answer
PartlyFailed60 == Probes(NoOutput, 3, NoOutput, 0, NoOutput, 0, 0)

\* what the probes may return during calibration and during monitoring
CalibrationInputs == {Score10, Score65}
TickInputs == {Score45, Score60, Score65, Score70, Score100}
LongCalibrationInputs == {Score10}
LongTickInputs == {Score45, Score60, Score100}
WriteOutcomes == {"ok"}

\* combinations of indicator values on both sides of every rule's condition and cap
ScoreInputs ==
    {Probes(pa, sa, au, hal, fds, io, ca) :
        pa \in 0..1, sa \in {0, 1, 3, 4}, au \in {0, 1, 3}, hal \in 0..1,
        fds \in {3, 4}, io \in 0..1, ca \in 0..1}

\* failing probes and failing writes
FaultCalibrationInputs == {AllProbesFail, Score10}
FaultTickInputs == {AllProbesFail, PartlyFailed60, Score100}
FaultWriteOutcomes == {"open_error", "opened"}

\* the scores that are sustained after the first ticks of SpecSustained
SustainedInputs == {Score60, Score100}

\* write outcomes of the runs with interrupts
InterruptWriteOutcomes == {"opened"}

----------------------------------------------------------------------------
(* The program *)

NoSnapshot == [k \in IndicatorNames |-> 0]

\* some probe returned a count
Gathered(probes) == \E k \in IndicatorNames : probes[k] >= 0

\* __init__ (lines 13-17) and run() up to the call of calibrate(); the locals
\* of the loop are unbound until the first iteration assigns them.
Init ==
    /\ pc = "calibrate"
    /\ scores = <<>>
    /\ baseline_score = 0
    /\ in_huddle = FALSE
    /\ score_history = <<>>
    /\ huddle_peak_score = 0
    /\ consecutive_starts = 0
    /\ consecutive_ends = 0
    /\ state = NoSnapshot
    /\ score = 0
    /\ reasons = <<>>
    /\ should_start = FALSE
    /\ should_end = FALSE
    /\ trend = ZeroTrend
    /\ status_file = <<>>
    /\ reader_view = <<>>
    /\ probe_outputs = NoSnapshot
    /\ samples_gathered = 0
    /\ write_outcome = "none"
    /\ pushed = <<>>
    /\ session_start = 0
    /\ phases = <<>>
    /\ interrupts = 0
    /\ manual_huddle_state = FALSE
    /\ stdin_thread = "listening"
    /\ labelled = <<>>
    /\ last_command = ""

\* one pass of the for loop of calibrate(), lines 180-185
CalibrateSample(probes) ==
    /\ pc = "calibrate"
    /\ Len(scores) < CalibrationSamples
    /\ scores' = Append(scores, ScoreOf(probes))
    /\ probe_outputs' = probes
    /\ samples_gathered' = samples_gathered + (IF Gathered(probes) THEN 1 ELSE 0)
    /\ UNCHANGED <<phases, interrupts, sudo_monitor,
                   pc, baseline_score, in_huddle, score_history, huddle_peak_score,
                   consecutive_starts, consecutive_ends, state, score, reasons,
                   should_start, should_end, trend, status_file, reader_view,
                   write_outcome, pushed, session_start>>

\* the end of calibrate(), line 187, and run() up to the loop
CalibrateFinish ==
    /\ pc = "calibrate"
    /\ Len(scores) >= CalibrationSamples
    /\ baseline_score' = BaselineOf(scores)
    /\ scores' = <<>>
    /\ pc' = "monitor"
    /\ UNCHANGED <<phases, interrupts, sudo_monitor,
                   in_huddle, score_history, huddle_peak_score, consecutive_starts,
                   consecutive_ends, state, score, reasons, should_start,
                   should_end, trend, status_file, reader_view, probe_outputs,
                   samples_gathered, write_outcome, pushed, session_start>>

\* one iteration of the while loop of run(), lines 213-280: the values the
\* iteration leaves in the fields, the locals and the file
Iteration(probes, outcome) ==
    LET st == GetAudioState(probes)
        res == CalculateScore(st)
        sc == res.score
        hist == DequeAppend(score_history, sc)
        tr == Trend(hist)
        se == ShouldEnd(in_huddle, sc, huddle_peak_score, baseline_score, tr)
        ss == ShouldStart(in_huddle, sc, baseline_score, tr)
        started == StartConfirmed(ss, consecutive_starts)
        ended == EndConfirmed(ss, se, consecutive_ends)
        inh == PhaseAfter(started, ended, in_huddle)
        peak == PeakUpdate(inh, sc,
                    PeakAfterTransition(started, ended, sc, huddle_peak_score))
        b3 == BaselineAfter(ended, sc, baseline_score)
    IN  [state |-> st, score |-> sc, reasons |-> res.reasons,
         score_history |-> hist, trend |-> tr,
         should_start |-> ss, should_end |-> se,
         consecutive_starts |-> NextStarts(ss, se, consecutive_starts),
         consecutive_ends |-> NextEnds(ss, se, consecutive_ends),
         in_huddle |-> inh, huddle_peak_score |-> peak, baseline_score |-> b3,
         status_file |-> WriteStatusFile(status_file,
                             StatusData(inh, sc, b3, peak, tr, st), outcome),
         pc |-> PcAfterWrite(outcome),
         started |-> started, ended |-> ended]

RunIteration(probes, outcome) ==
    /\ \E it \in {Iteration(probes, outcome)} :
           /\ state' = it.state
           /\ score' = it.score
           /\ reasons' = it.reasons
           /\ score_history' = it.score_history
           /\ trend' = it.trend
           /\ should_start' = it.should_start
           /\ should_end' = it.should_end
           /\ consecutive_starts' = it.consecutive_starts
           /\ consecutive_ends' = it.consecutive_ends
           /\ in_huddle' = it.in_huddle
           /\ huddle_peak_score' = it.huddle_peak_score
           /\ baseline_score' = it.baseline_score
           /\ status_file' = it.status_file
           /\ pc' = it.pc
           /\ pushed' = Append(pushed, it.score)
           /\ session_start' = IF it.started THEN Len(pushed) + 1
                               ELSE IF it.ended THEN 0 ELSE session_start
    /\ probe_outputs' = probes
    /\ write_outcome' = outcome
    /\ phases' = Append(phases, in_huddle')
    /\ UNCHANGED <<scores, reader_view, samples_gathered, sudo_monitor>>

\* an iteration that does not wait for calibrate() to return
TickBeforeCalibration(probes, outcome) ==
    RunIteration(probes, outcome) /\ UNCHANGED interrupts

\* the loop is entered after calibrate() has returned, lines 203-212
Tick(probes, outcome) ==
    /\ pc = "monitor"
    /\ RunIteration(probes, outcome)
    /\ UNCHANGED interrupts

\* json.dump and the close of the file, lines 166-170, after open() returned
DumpDone ==
    /\ pc = "dumping"
    /\ status_file' = <<status_file[1]>>
    /\ write_outcome' = "ok"
    /\ pc' = "monitor"
    /\ UNCHANGED <<phases, interrupts, sudo_monitor,
                   scores, baseline_score, in_huddle, score_history,
                   huddle_peak_score, consecutive_starts, consecutive_ends, state,
                   score, reasons, should_start, should_end, trend, reader_view,
                   probe_outputs, samples_gathered, pushed, session_start>>

\* the dump or the flush raises (a full disk): the file stays cut
DumpError ==
    /\ pc = "dumping"
    /\ write_outcome' = "dump_error"
    /\ pc' = PcAfterWriteError
    /\ UNCHANGED <<phases, interrupts, sudo_monitor,
                   scores, baseline_score, in_huddle, score_history,
                   huddle_peak_score, consecutive_starts, consecutive_ends, state,
                   score, reasons, should_start, should_end, trend, status_file,
                   reader_view, probe_outputs, samples_gathered, pushed,
                   session_start>>

\* the menubar app, another process, reads the file
ReaderRead ==
    /\ reader_view' = status_file
    /\ UNCHANGED <<phases, interrupts, sudo_monitor,
                   pc, scores, baseline_score, in_huddle, score_history,
                   huddle_peak_score, consecutive_starts, consecutive_ends, state,
                   score, reasons, should_start, should_end, trend, status_file,
                   probe_outputs, samples_gathered, write_outcome, pushed,
                   session_start>>

----------------------------------------------------------------------------
(* KeyboardInterrupt, raised in the main thread wherever run() happens to be *)

\* the outputs of an iteration in which the interrupt arrived while probe k
\* ran: the bare "except:" of run_command_safe catches the KeyboardInterrupt
\* and returns "", lines 24-30
ProbesInterrupted(probes, k) == [probes EXCEPT ![k] = NoOutput]

\* the interrupt arrives inside subprocess.run of probe k: the iteration goes
\* on with that probe defaulted
InterruptInProbe(probes, k, outcome) ==
    /\ pc = "monitor"
    /\ RunIteration(ProbesInterrupted(probes, k), outcome)
    /\ interrupts' = interrupts + 1

\* the interrupt arrives in the try block after get_audio_state returned and
\* before detect_huddle_change: "except KeyboardInterrupt: break", lines 282-283
InterruptInUpdate(probes) ==
    /\ pc = "monitor"
    /\ state' = GetAudioState(probes)
    /\ probe_outputs' = probes
    /\ pc' = "stopped"
    /\ interrupts' = interrupts + 1
    /\ UNCHANGED <<scores, baseline_score, in_huddle, score_history,
                   huddle_peak_score, consecutive_starts, consecutive_ends, score,
                   reasons, should_start, should_end, trend, status_file,
                   reader_view, samples_gathered, write_outcome, pushed,
                   session_start, phases, sudo_monitor>>

\* the interrupt arrives while the status file is open: "except Exception"
\* of write_status_file does not catch it, the with block closes the file
\* and run() breaks
InterruptInPublish ==
    /\ pc = "dumping"
    /\ write_outcome' = "interrupted"
    /\ pc' = "stopped"
    /\ interrupts' = interrupts + 1
    /\ UNCHANGED <<scores, baseline_score, in_huddle, score_history,
                   huddle_peak_score, consecutive_starts, consecutive_ends, state,
                   score, reasons, should_start, should_end, trend, status_file,
                   reader_view, probe_outputs, samples_gathered, pushed,
                   session_start, phases, sudo_monitor>>

\* the interrupt arrives in time.sleep(3), line 280
InterruptInSleep ==
    /\ pc = "monitor"
    /\ pc' = "stopped"
    /\ interrupts' = interrupts + 1
    /\ UNCHANGED <<scores, baseline_score, in_huddle, score_history,
                   huddle_peak_score, consecutive_starts, consecutive_ends, state,
                   score, reasons, should_start, should_end, trend, status_file,
                   reader_view, probe_outputs, samples_gathered, write_outcome,
                   pushed, session_start, phases, sudo_monitor>>

----------------------------------------------------------------------------
(* The monitor of "failed attempts/slack-huddle-sudo.py": the stdin        *)
(* listener thread and the loop of run() share self.manual_huddle_state    *)

\* the lines stdin_listener acts on
Commands == {"h", "n", "s", "d", "q"}

\* a command that flips the flag whatever it is
FlagAfterToggled(line, flag) ==
    IF line \in {"h", "n"} THEN ~flag ELSE flag

\* self.manual_huddle_state after stdin_listener handled the line
FlagAfter(line, flag) ==
    IF line = "h" THEN TRUE ELSE IF line = "n" THEN FALSE ELSE flag

\* stdin_listener reads one line and acts on it, lines 275-296
StdinCommand(line) ==
    /\ stdin_thread = "listening"
    /\ manual_huddle_state' = FlagAfter(line, manual_huddle_state)
    /\ stdin_thread' = IF line = "q" THEN "returned" ELSE "listening"
    /\ last_command' = IF line \in {"h", "n"} THEN line ELSE last_command
    /\ UNCHANGED <<labelled, pc, scores, baseline_score, in_huddle, score_history,
                   huddle_peak_score, consecutive_starts, consecutive_ends, state,
                   score, reasons, should_start, should_end, trend, status_file,
                   reader_view, probe_outputs, samples_gathered, write_outcome,
                   pushed, session_start, phases, interrupts>>

\* one pass of the loop of run(): the flag is read once, at line 455, and the
\* data of the pass goes to huddle_data or to baseline_data
SudoRunPass ==
    /\ labelled' = Append(labelled, manual_huddle_state)
    /\ UNCHANGED <<manual_huddle_state, stdin_thread, last_command, pc, scores,
                   baseline_score, in_huddle, score_history, huddle_peak_score,
                   consecutive_starts, consecutive_ends, state, score, reasons,
                   should_start, should_end, trend, status_file, reader_view,
                   probe_outputs, samples_gathered, write_outcome, pushed,
                   session_start, phases, interrupts>>

Ticks == Len(pushed)

Next ==
    \/ \E p \in CalibrationInputs : CalibrateSample(p)
    \/ CalibrateFinish
    \/ \E p \in TickInputs, w \in WriteOutcomes : Ticks < MaxTicks /\ Tick(p, w)

Spec == Init /\ [][Next]_vars

\* long runs over few scores: the history fills up and overflows
NextLong ==
    \/ \E p \in LongCalibrationInputs : CalibrateSample(p)
    \/ CalibrateFinish
    \/ \E p \in LongTickInputs, w \in WriteOutcomes : Ticks < MaxLongTicks /\ Tick(p, w)

SpecLong == Init /\ [][NextLong]_vars

\* a few ticks that move the phase, the baseline and the history, then one
\* tick on any combination of indicator values
NextScore ==
    \/ \E p \in LongCalibrationInputs : CalibrateSample(p)
    \/ CalibrateFinish
    \/ \E p \in LongTickInputs, w \in WriteOutcomes : Ticks < MaxScoreTicks /\ Tick(p, w)
    \/ \E p \in ScoreInputs, w \in WriteOutcomes : Ticks = MaxScoreTicks /\ Tick(p, w)

SpecScore == Init /\ [][NextScore]_vars

\* failing probes, failing writes and a reader of the status file
NextFaults ==
    \/ \E p \in FaultCalibrationInputs : CalibrateSample(p)
    \/ CalibrateFinish
    \/ \E p \in FaultTickInputs, w \in FaultWriteOutcomes :
           Ticks < MaxFaultTicks /\ Tick(p, w)
    \/ DumpDone
    \/ DumpError
    \/ ReaderRead

\* the listener thread and the loop of slack-huddle-sudo.py, interleaved
NextSudo ==
    \/ \E line \in Commands : StdinCommand(line)
    \/ Len(labelled) < MaxSudoPasses /\ SudoRunPass

SpecSudo == Init /\ [][NextSudo]_vars

\* interrupts at the points of the monitoring cycle
NextInterrupt ==
    \/ \E p \in LongCalibrationInputs : CalibrateSample(p)
    \/ CalibrateFinish
    \/ \E p \in LongTickInputs, w \in InterruptWriteOutcomes :
           Ticks < MaxInterruptTicks /\ Tick(p, w)
    \/ DumpDone
    \/ \E p \in LongTickInputs, k \in IndicatorNames, w \in InterruptWriteOutcomes :
           /\ Ticks < MaxInterruptTicks /\ interrupts < MaxInterrupts
           /\ InterruptInProbe(p, k, w)
    \/ \E p \in LongTickInputs : interrupts < MaxInterrupts /\ InterruptInUpdate(p)
    \/ interrupts < MaxInterrupts /\ InterruptInPublish
    \/ interrupts < MaxInterrupts /\ InterruptInSleep

SpecInterrupt == Init /\ [][NextInterrupt]_vars

\* a few ticks on any score, then ticks on scores above the start threshold
NextSustained ==
    \/ \E p \in LongCalibrationInputs : CalibrateSample(p)
    \/ CalibrateFinish
    \/ \E p \in LongTickInputs, w \in WriteOutcomes :
           Ticks < MaxPrefixTicks /\ Tick(p, w)
    \/ \E p \in SustainedInputs, w \in WriteOutcomes :
           Ticks >= MaxPrefixTicks /\ Ticks < MaxSustainedTicks /\ Tick(p, w)

SpecSustained == Init /\ [][NextSustained]_vars

SpecFaults == Init /\ [][NextFaults]_vars

----------------------------------------------------------------------------
(* Properties *)

\* a step that is one monitoring tick
TickStep == pushed' # pushed

\* C1: the detector goes IDLE -> ACTIVE on a tick exactly when that tick and
\* the tick right before it both satisfied the start condition; with
\* baseline 10 and scores [60, 60] it is IDLE after the first tick and
\* ACTIVE after the second.
C1_StartOnSecondTick ==
    /\ [][(~in_huddle /\ in_huddle') <=> (TickStep /\ should_start /\ should_start')]_vars
    /\ [](baseline_score = 30 /\ pushed = <<60>> => ~in_huddle)
    /\ [](baseline_score = 30 /\ pushed = <<60, 60>> => in_huddle)

C1_Witness ==
    /\ pushed = <<60, 60>>
    /\ in_huddle /\ should_start /\ consecutive_starts = 0
    /\ huddle_peak_score = 60 /\ baseline_score = 30

\* C2: the detector goes ACTIVE -> IDLE on a tick exactly when that tick and
\* the tick right before it both satisfied the end condition; with baseline
\* 10 and peak 100, two scores below 70 leave it ACTIVE after the first and
\* IDLE after the second.
C2_EndOnSecondTick ==
    /\ [][(in_huddle /\ ~in_huddle') <=> (TickStep /\ should_end /\ should_end')]_vars
    /\ [][TickStep /\ baseline_score = 30 /\ pushed = <<100, 100>> /\ score' = 65
            => in_huddle' /\ huddle_peak_score' = 100]_vars
    /\ [][TickStep /\ baseline_score = 30 /\ pushed = <<100, 100, 65>> /\ score' = 65
            => ~in_huddle']_vars

C2_Witness ==
    /\ pushed = <<100, 100, 65, 65>>
    /\ ~in_huddle /\ should_end /\ consecutive_ends = 0

C4_CountersReset ==
    /\ [][TickStep =>
            /\ (~should_start' => consecutive_starts' = 0)
            /\ (~should_end' => consecutive_ends' = 0)
            /\ (~should_start /\ ~should_end => in_huddle' = in_huddle)]_vars
    /\ [](baseline_score = 30 /\ pushed = <<100, 100, 65, 70, 65>> => in_huddle)

C4_Witness ==
    /\ pushed = <<100, 100, 65, 70, 65>>
    /\ baseline_score = 30 /\ huddle_peak_score = 100
    /\ in_huddle /\ should_end /\ consecutive_ends = 1

\* C5: on the tick that confirms ACTIVE -> IDLE the baseline becomes exactly
\* that tick's score.
C5_ReanchorToScore ==
    [][in_huddle /\ ~in_huddle' => baseline_score' = 3 * score']_vars

\* re-anchored to 65, which is neither the old baseline 10 nor a mean of
\* the last scores
C5_Witness ==
    /\ pushed = <<100, 100, 65, 65>>
    /\ ~in_huddle /\ baseline_score = 3 * 65

\* C6: only calibration and the tick that confirms ACTIVE -> IDLE change the
\* baseline.
C6_BaselineFrame ==
    [][baseline_score' # baseline_score =>
          pc = "calibrate" \/ (TickStep /\ in_huddle /\ ~in_huddle')]_vars

\* a second session, started on the re-anchored baseline, which the start
\* confirmation did not touch
C6_Witness ==
    /\ pushed = <<100, 100, 65, 65, 100, 100>>
    /\ in_huddle /\ session_start = 6 /\ baseline_score = 3 * 65

\* the largest of h[lo..hi], lo <= hi
RECURSIVE MaxRange(_, _, _)
MaxRange(h, lo, hi) ==
    IF lo >= hi THEN h[hi] ELSE Max(h[lo], MaxRange(h, lo + 1, hi))

\* C7: while ACTIVE the peak is the largest score since and including the
\* confirming tick, it is at least the current score, and it does not
\* decrease from one ACTIVE tick to the next.
C7_PeakIsSessionMax ==
    /\ [](in_huddle =>
            /\ huddle_peak_score = MaxRange(pushed, session_start, Len(pushed))
            /\ huddle_peak_score >= score)
    /\ [][in_huddle /\ in_huddle' => huddle_peak_score' >= huddle_peak_score]_vars

\* the peak was raised after the confirming tick and the score fell again
C7_Witness ==
    /\ in_huddle
    /\ session_start < Len(pushed)
    /\ huddle_peak_score > pushed[session_start]
    /\ score < huddle_peak_score

\* C8: whenever the detector is IDLE the peak is 0.
C8_IdlePeakZero == ~in_huddle => huddle_peak_score = 0

\* IDLE right after a session whose peak was 100
C8_Witness ==
    /\ ~in_huddle /\ should_end /\ huddle_peak_score = 0
    /\ \E i \in 1..Len(pushed) : pushed[i] = 100

\* C9 as claimed: while ACTIVE a tick whose score meets the start threshold
\* max(50, baseline + 25) is no end signal.
C9_Original ==
    [][TickStep /\ in_huddle /\ 3 * score' >= Max(150, baseline_score + 75)
          => ~should_end']_vars

\* C9 amended: while ACTIVE a tick whose score meets the start threshold is
\* an end signal exactly when score < 0.7 * peak; the near-baseline rule and
\* the trend rule never fire on it.
C9_OnlyRatioEndsAboveStart ==
    [][TickStep /\ in_huddle /\ 3 * score' >= Max(150, baseline_score + 75)
          => (should_end' <=> 10 * score' < 7 * huddle_peak_score)]_vars

\* an end signal on a score that meets the start threshold
C9_Witness ==
    /\ in_huddle /\ should_end /\ consecutive_ends = 1
    /\ huddle_peak_score = 100 /\ score = 65
    /\ 3 * score >= Max(150, baseline_score + 75)

\* C10: the history holds the last min(n, 10) of the n pushed scores, in
\* arrival order.
C10_HistoryIsLastTen ==
    /\ Len(score_history) = Min(Len(pushed), 10)
    /\ \A i \in 1..Len(score_history) :
           score_history[i] = pushed[Len(pushed) - Len(score_history) + i]

\* the eleventh push evicted the first score, which differed from the second
C10_Witness ==
    /\ Len(pushed) = 11 /\ Len(score_history) = 10
    /\ pushed[1] # pushed[2]
    /\ score_history[1] = pushed[2]

\* C11: on a tick that is at least the sixth, the trend is the mean of the
\* last three pushed scores minus the mean of the three before them (three
\* times it is the difference of the two sums); on an earlier tick it is
\* exactly 0.
C11_TrendOfLastSix ==
    LET n == Len(pushed)
    IN  /\ n >= 1 /\ n < 6 => trend = ZeroTrend
        /\ n >= 6 =>
              /\ Len(score_history) >= 6
              /\ trend.thirds = (pushed[n] + pushed[n - 1] + pushed[n - 2])
                                - (pushed[n - 3] + pushed[n - 4] + pushed[n - 5])
              /\ trend.thirds = 0 => trend.err = 0

\* a falling trend on the eleventh tick, after the history has overflowed
C11_Witness ==
    /\ Len(pushed) = 11 /\ Len(score_history) = 10
    /\ pushed[9] + pushed[10] + pushed[11] = 3 * 60
    /\ pushed[6] + pushed[7] + pushed[8] = 3 * 100
    /\ trend.thirds = 3 * 60 - 3 * 100

\* C12: calibration scores exactly three snapshots, and the baseline it sets
\* is their arithmetic mean (a + b + c) / 3: three times the baseline is the
\* sum of the three sample scores.
C12_BaselineIsMeanOfThree ==
    [][/\ Len(scores') <= 3
       /\ pc = "calibrate" /\ pc' = "monitor" =>
              /\ Len(scores) = 3
              /\ baseline_score' = scores[1] + scores[2] + scores[3]]_vars

\* calibration has returned a mean that is no integer: (10 + 10 + 65) / 3
C12_Witness ==
    /\ pc = "monitor" /\ pushed = <<>>
    /\ baseline_score = 10 + 10 + 65

\* C13: nothing of the monitoring loop happens before calibration has set the
\* baseline: a step taken while calibrate() has not returned pushes no score,
\* evaluates no start or end signal, changes no phase, counter or peak and
\* publishes nothing.
C13_CalibrationFirst ==
    [][pc = "calibrate" =>
          /\ pushed' = <<>> /\ score_history' = <<>>
          /\ ~should_start' /\ ~should_end'
          /\ consecutive_starts' = 0 /\ consecutive_ends' = 0
          /\ ~in_huddle' /\ huddle_peak_score' = 0
          /\ status_file' = <<>> /\ write_outcome' = "none"]_vars

\* the first tick, evaluated and published on the calibrated baseline 65
C13_Witness ==
    /\ pc = "monitor" /\ Len(pushed) = 1 /\ Len(score_history) = 1
    /\ baseline_score = 3 * 65
    /\ write_outcome = "ok" /\ status_file # <<>>

\* C14: the detector is in the monitoring loop only if calibration gathered
\* its three samples: it never monitors on a baseline computed from samples
\* whose probes all failed and were defaulted to 0.
C14_NoLoopOnDefaultedSamples ==
    pc # "calibrate" => samples_gathered >= CalibrationSamples

\* the score of snapshot st as one sum
ScoreSum(st) ==
    (IF st["power_assertions"] > 0 THEN 25 ELSE 0)
    + 20 * Min(st["slack_assertions"], 3)
    + 15 * Min(st["audio_units"], 2)
    + (IF st["hal_plugins"] > 0 THEN 10 ELSE 0)
    + (IF st["audio_fds"] > 3 THEN 5 ELSE 0)
    + (IF st["ioregistry_clients"] > 0 THEN 10 ELSE 0)
    + (IF st["coreaudio_connections"] > 0 THEN 10 ELSE 0)

ReasonTriggered(r) == IF r[1] = "Audio FDs" THEN r[2] > 3 ELSE r[2] > 0

\* the reasons of snapshot st: the triggered ones of the seven, in order
ReasonsOf(st) ==
    SelectSeq(<< <<"Audio power", st["power_assertions"]>>,
                 <<"Slack assertions", st["slack_assertions"]>>,
                 <<"Audio units", st["audio_units"]>>,
                 <<"HAL plugins", st["hal_plugins"]>>,
                 <<"Audio FDs", st["audio_fds"]>>,
                 <<"IO clients", st["ioregistry_clients"]>>,
                 <<"CoreAudio", st["coreaudio_connections"]>> >>,
              ReasonTriggered)

\* C15: every score is >= 0; the score and the reasons of a tick are a
\* function of its snapshot alone, whatever the phase, the baseline and the
\* history are; and a step that only scores a snapshot (a calibration sample)
\* changes no field of the detector.
C15_ScorePure ==
    /\ [](/\ score >= 0
          /\ \A i \in 1..Len(scores) : scores[i] >= 0
          /\ Ticks >= 1 => score = ScoreSum(state) /\ reasons = ReasonsOf(state))
    /\ [][scores' # scores /\ scores' # <<>> =>
             /\ scores'[Len(scores')] = ScoreSum(GetAudioState(probe_outputs'))
             /\ UNCHANGED <<baseline_score, in_huddle, score_history,
                            huddle_peak_score>>]_vars

\* a snapshot scored 60 inside a session, on a history of three scores
C15_Witness ==
    /\ Ticks = 3 /\ in_huddle /\ Len(score_history) = 3
    /\ state["slack_assertions"] = 3 /\ state["audio_fds"] = 3
    /\ score = 60 /\ baseline_score < 3 * 60

\* the seven reason labels in the order of the rules
ReasonLabels ==
    <<"Audio power", "Slack assertions", "Audio units", "HAL plugins",
      "Audio FDs", "IO clients", "CoreAudio">>

\* the indicators the labels report, in the same order
ReasonIndicators ==
    <<"power_assertions", "slack_assertions", "audio_units", "hal_plugins",
      "audio_fds", "ioregistry_clients", "coreaudio_connections">>

\* rule i of the seven is triggered by snapshot st
RuleTriggered(i, st) ==
    IF ReasonIndicators[i] = "audio_fds" THEN st["audio_fds"] > 3
    ELSE st[ReasonIndicators[i]] > 0

\* the position of a label in the rule order
RuleIndex(label) == CHOOSE i \in 1..Len(ReasonLabels) : ReasonLabels[i] = label

\* C16: the reasons of a tick hold exactly one entry per triggered rule, in
\* the order of the rules, each with the observed value of its indicator, and
\* they are empty exactly when the score is 0.
C16_ReasonsPerRule ==
    Ticks >= 1 =>
        /\ \A i \in 1..Len(ReasonLabels) :
               Cardinality({j \in 1..Len(reasons) : reasons[j][1] = ReasonLabels[i]})
                   = (IF RuleTriggered(i, state) THEN 1 ELSE 0)
        /\ \A j \in 1..Len(reasons) :
               reasons[j][2] = state[ReasonIndicators[RuleIndex(reasons[j][1])]]
        /\ \A j, k \in 1..Len(reasons) :
               j < k => RuleIndex(reasons[j][1]) < RuleIndex(reasons[k][1])
        /\ (reasons = <<>>) <=> (score = 0)

\* all seven rules triggered, with values above the caps
C16_Witness ==
    /\ Len(reasons) = 7 /\ score = 150
    /\ reasons[1] = <<"Audio power", 1>>
    /\ reasons[2] = <<"Slack assertions", 4>>
    /\ reasons[5] = <<"Audio FDs", 4>>
    /\ reasons[7] = <<"CoreAudio", 1>>

\* C17: a probe that fails, times out or prints no number gives its
\* indicator the value 0, and the tick goes on as any other: it scores the
\* snapshot (0 without reasons when every probe failed), pushes the score,
\* evaluates the signals and hands the snapshot of this tick to the status
\* file.
C17_FailedProbesAreZero ==
    /\ [](Ticks >= 1 =>
             /\ \A k \in IndicatorNames :
                    state[k] = (IF probe_outputs[k] = NoOutput THEN 0
                                ELSE probe_outputs[k])
             /\ probe_outputs = AllProbesFail => score = 0 /\ reasons = <<>>)
    /\ [][TickStep /\ (\E k \in IndicatorNames : probe_outputs'[k] = NoOutput) =>
             /\ score' = ScoreSum(state')
             /\ pushed' = Append(pushed, score')
             /\ score_history' = Append(score_history, score')
             /\ should_start' = ShouldStart(in_huddle, score', baseline_score, trend')
             /\ should_end' = ShouldEnd(in_huddle, score', huddle_peak_score,
                                        baseline_score, trend')
             /\ write_outcome' \in {"open_error", "opened"}
             /\ write_outcome' = "opened" =>
                    /\ status_file'[1].score = score'
                    /\ status_file'[1].inHuddle = in_huddle'
                    /\ status_file'[1].metrics.slackAssertions = state'["slack_assertions"]]_vars

\* a tick on which every probe failed, scored 0 and published
C17_Witness ==
    /\ Ticks = 2 /\ probe_outputs = AllProbesFail
    /\ score = 0 /\ reasons = <<>> /\ pushed[2] = 0
    /\ write_outcome = "ok" /\ Len(status_file) = 1 /\ status_file[1].score = 0

\* a step on which write_status_file fails: open() raises, or the dump does
FailedWriteStep ==
    \/ TickStep /\ write_outcome' = "open_error"
    \/ pc = "dumping" /\ write_outcome' = "dump_error"

\* C18: a failed write of the status file is ignored: phase, baseline, peak,
\* both counters and the history are what the tick's update made them, as on
\* a tick whose write succeeds, and run() is back in its loop for the next
\* tick.
C18_WriteFailureIgnored ==
    [][FailedWriteStep =>
          /\ pc' = "monitor"
          /\ LET it == IF TickStep THEN Iteration(probe_outputs', "ok")
                       ELSE [in_huddle |-> in_huddle,
                             baseline_score |-> baseline_score,
                             huddle_peak_score |-> huddle_peak_score,
                             consecutive_starts |-> consecutive_starts,
                             consecutive_ends |-> consecutive_ends,
                             score_history |-> score_history]
             IN  /\ in_huddle' = it.in_huddle
                 /\ baseline_score' = it.baseline_score
                 /\ huddle_peak_score' = it.huddle_peak_score
                 /\ consecutive_starts' = it.consecutive_starts
                 /\ consecutive_ends' = it.consecutive_ends
                 /\ score_history' = it.score_history]_vars

\* the dump of the first tick failed and left the file cut; the second tick,
\* whose open() failed, confirmed the session; a third tick followed
C18_Witness ==
    /\ Ticks = 3 /\ session_start = 2 /\ in_huddle
    /\ pushed = <<100, 100, 100>> /\ huddle_peak_score = 100
    /\ write_outcome = "open_error" /\ Len(status_file) = 2
    /\ status_file[1].score = 100 /\ ~status_file[1].inHuddle

\* C19: a reader of the status file gets a complete snapshot, the previous
\* one or the new one, never a file that a publish has emptied and not yet
\* filled.
C19_ReaderSeesCompleteSnapshot ==
    Len(reader_view) # 2

\* C20: after a tick whose publish succeeded the status file holds the
\* projection of the state that tick left: the phase it decided, its score,
\* the baseline after a re-anchoring, the peak when ACTIVE and 0 otherwise,
\* the trend and the metrics of its snapshot, and no other field.
C20_SnapshotIsPostState ==
    Ticks >= 1 =>
        /\ Len(status_file) = 1
        /\ DOMAIN status_file[1] =
               {"inHuddle", "score", "baseline", "peakScore", "trend", "metrics"}
        /\ status_file[1].inHuddle = in_huddle
        /\ status_file[1].score = score
        /\ status_file[1].score = pushed[Len(pushed)]
        /\ status_file[1].baseline = baseline_score
        /\ status_file[1].peakScore = (IF in_huddle THEN huddle_peak_score ELSE 0)
        /\ status_file[1].trend = TrendStr(trend)
        /\ status_file[1].metrics =
               [slackAssertions |-> state["slack_assertions"],
                audioUnits |-> state["audio_units"],
                audioFds |-> state["audio_fds"],
                powerAssertions |-> state["power_assertions"]]

\* the tick that ended a session published IDLE, peak 0 and the baseline
\* re-anchored to its score 65
C20_Witness ==
    /\ pushed = <<100, 100, 65, 65>> /\ ~in_huddle
    /\ Len(status_file) = 1
    /\ status_file[1].baseline = 3 * 65 /\ status_file[1].peakScore = 0
    /\ ~status_file[1].inHuddle /\ status_file[1].score = 65

\* C21: every pass of the loop sees the flag as the last 'h' or 'n' command
\* left it (last write wins): a command typed between two passes decides the
\* label of the next pass, and before any command the label is "baseline".
C21_LastCommandSeenNextTick ==
    [][labelled' # labelled =>
          /\ Len(labelled') = Len(labelled) + 1
          /\ labelled'[Len(labelled')] = (last_command = "h")]_vars

\* 'h' was seen by the second pass and a later 'n' by the third
C21_Witness ==
    /\ Len(labelled) = 3 /\ ~labelled[1] /\ labelled[2] /\ ~labelled[3]
    /\ last_command = "n" /\ stdin_thread = "listening"

\* a tick with the probe outputs of the tick before it: the replay of that tick
ReplayStep == TickStep /\ Ticks >= 1 /\ probe_outputs' = probe_outputs

C23_InterruptStopsLoop ==
    interrupts > 0 => pc = "stopped"

\* C24: at the end of the tick that confirms IDLE -> ACTIVE the peak is that
\* tick's score and both consecutive counters are 0.
C24_StartResetsPeakAndCounters ==
    Ticks >= 1 /\ session_start = Ticks =>
        /\ in_huddle
        /\ huddle_peak_score = score /\ huddle_peak_score = pushed[Ticks]
        /\ consecutive_starts = 0 /\ consecutive_ends = 0

\* confirmed on 70 after a first signal on 65: the peak is 70
C24_Witness ==
    /\ pushed = <<65, 70>> /\ session_start = 2 /\ in_huddle
    /\ huddle_peak_score = 70 /\ consecutive_starts = 0

\* C25: a tick scores its snapshot, pushes exactly that one score, computes
\* the trend and both conditions on the history that holds it, with the
\* phase, peak and baseline the tick began with, then updates the state, and
\* publishes the state after the update.
C25_TickOrder ==
    [][TickStep =>
          /\ score' = CalculateScore(state').score
          /\ pushed' = Append(pushed, score')
          /\ Len(score_history') = Min(Len(score_history) + 1, HistoryMaxLen)
          /\ score_history'[Len(score_history')] = score'
          /\ \A i \in 1..(Len(score_history') - 1) :
                 score_history'[i] =
                     score_history[i + Len(score_history) + 1 - Len(score_history')]
          /\ trend' = Trend(score_history')
          /\ should_start' = ShouldStart(in_huddle, score', baseline_score, trend')
          /\ should_end' = ShouldEnd(in_huddle, score', huddle_peak_score,
                                     baseline_score, trend')
          /\ Len(status_file') = 1
          /\ status_file'[1].inHuddle = in_huddle'
          /\ status_file'[1].baseline = baseline_score'
          /\ status_file'[1].peakScore = (IF in_huddle' THEN huddle_peak_score' ELSE 0)]_vars

\* the third tick raised the peak of the session and published it
C25_Witness ==
    /\ pushed = <<60, 60, 100>> /\ score_history = <<60, 60, 100>>
    /\ in_huddle /\ huddle_peak_score = 100
    /\ status_file[1].peakScore = 100 /\ status_file[1].score = 100

\* snapshot st with every value beyond a cap or below a floor replaced by
\* the cap or by 0
Capped(st) ==
    [st EXCEPT !["slack_assertions"] = Min(@, 3),
               !["audio_units"] = Min(@, 2),
               !["audio_fds"] = IF @ <= 3 THEN 0 ELSE @]

\* C26: the score is 25 for audio power, 20 per Slack assertion up to 3, 15
\* per audio unit up to 2, 10 for HAL plugins, 5 for more than 3 audio FDs,
\* 10 for IO clients and 10 for CoreAudio; it is at most 150, and values
\* beyond the caps or audio FDs up to 3 do not change it.
C26_ScoreFormula ==
    Ticks >= 1 =>
        /\ score = (IF state["power_assertions"] > 0 THEN 25 ELSE 0)
                   + 20 * Min(state["slack_assertions"], 3)
                   + 15 * Min(state["audio_units"], 2)
                   + (IF state["hal_plugins"] > 0 THEN 10 ELSE 0)
                   + (IF state["audio_fds"] > 3 THEN 5 ELSE 0)
                   + (IF state["ioregistry_clients"] > 0 THEN 10 ELSE 0)
                   + (IF state["coreaudio_connections"] > 0 THEN 10 ELSE 0)
        /\ score <= 150
        /\ score = CalculateScore(Capped(state)).score

\* 4 Slack assertions, 3 audio units and 3 audio FDs score 60 + 30 + 0
C26_Witness ==
    /\ state = Probes(0, 4, 3, 0, 3, 0, 0)
    /\ score = 90 /\ Ticks = 3

\* C27: each consecutive counter is 0 or 1 and at most one of them is 1; the
\* start counter is 1 only while IDLE and the end counter only while ACTIVE;
\* the start and the end condition are never both true.
C27_CountersExclusive ==
    /\ consecutive_starts \in {0, 1} /\ consecutive_ends \in {0, 1}
    /\ ~(consecutive_starts > 0 /\ consecutive_ends > 0)
    /\ consecutive_starts > 0 => ~in_huddle
    /\ consecutive_ends > 0 => in_huddle
    /\ ~(should_start /\ should_end)

\* a first end signal, pending in a session
C27_Witness ==
    /\ pushed = <<100, 100, 45>> /\ in_huddle /\ should_end
    /\ consecutive_ends = 1 /\ consecutive_starts = 0

\* the phase before tick i
PhaseBefore(i) == IF i = 1 THEN FALSE ELSE phases[i - 1]

\* tick i changed the phase
Transition(i) == phases[i] # PhaseBefore(i)

\* C28: no two consecutive ticks both change the phase, and the first tick
\* after calibration does not: a period between two transitions spans at
\* least 2 ticks and the first session starts on the second tick at the
\* earliest.
C28_NoBackToBackTransitions ==
    /\ Len(phases) = Ticks
    /\ Ticks >= 1 => ~phases[1]
    /\ \A i \in 1..(Ticks - 1) : ~(Transition(i) /\ Transition(i + 1))

\* the shortest session: confirmed on tick 2, ended on tick 4
C28_Witness ==
    /\ phases = <<FALSE, TRUE, TRUE, FALSE>>
    /\ pushed = <<100, 100, 45, 45>>

\* C29: while ACTIVE the peak is at least 50 and at least baseline + 25.
C29_PeakAboveStartThreshold ==
    in_huddle =>
        /\ huddle_peak_score >= MinStartThreshold
        /\ 3 * huddle_peak_score >= baseline_score + 3 * StartMargin

\* a session at the lowest score that can start one here
C29_Witness ==
    /\ in_huddle /\ huddle_peak_score = 60 /\ baseline_score = 3 * 10
    /\ pushed = <<60, 60, 60>>

\* the last 7 ticks had the same score, at or above the start threshold, and
\* each of them found the detector IDLE
SustainedFromIdle ==
    /\ Ticks >= 7
    /\ \A i \in (Ticks - 6)..Ticks : pushed[i] = pushed[Ticks] /\ ~PhaseBefore(i)
    /\ 3 * pushed[Ticks] >= StartThreshold3(baseline_score)

\* C30: when the score stays at one value that meets the start threshold,
\* from a tick that found the detector IDLE, the detector is ACTIVE on the
\* 7th such tick at the latest, whatever the scores before were: if the
\* first six of them left it IDLE, the seventh confirms the session.
C30_ActiveBySeventhTick ==
    SustainedFromIdle => in_huddle /\ session_start = Ticks

\* five scores that leave a falling trend behind, then 60 seven times: the
\* session is confirmed on the seventh 60 and not before
C30_Witness ==
    /\ pushed = <<100, 45, 100, 45, 100, 60, 60, 60, 60, 60, 60, 60>>
    /\ SustainedFromIdle /\ in_huddle /\ session_start = 12
    /\ ~phases[11]

============================================================================
